---- MODULE Spec2Model ----
(***************************************************************************)
(* The n-gram Markov chain of src/markov_text.py: class MarkovChain with   *)
(* its constructor, add_sequence, get_next_token_probability and           *)
(* generate_sequence.  The table is the defaultdict(Counter) of the class: *)
(* a function from contexts (tuples of tokens) to counters (functions from *)
(* tokens to counts).  Python's slicing, negative indexing and float       *)
(* division are modelled as Python computes them.                          *)
(***************************************************************************)
EXTENDS Integers, Sequences, FiniteSets

(***************************************************************************)
(* Bounds of the model.                                                    *)
(***************************************************************************)
MaxLen == 3
MaxTrained == 3
MaxSeed == 2
MaxGen == 3
MaxLenProb == 2
MaxTrainedProb == 6

Tokens == {"a", "b"}
TokensProb == {"a", "b", "c"}
Orders == -1 .. 2

Seqs(T, n) == UNION {[1..k -> T] : k \in 0..n}

(***************************************************************************)
(* Python floats.  A double in [0, 2) is held exactly as three limbs of 20 *)
(* bits: <<x1, x2, x3>> is x1 * 2^-20 + x2 * 2^-40 + x3 * 2^-60.  Every    *)
(* double in [2^-7, 2) is a multiple of 2^-59, so the representation is    *)
(* exact for the quotients count / total with total < 128 and for their    *)
(* sums.  Rounding is IEEE-754 round-to-nearest, ties-to-even, to 53       *)
(* significant bits.                                                       *)
(***************************************************************************)
Limb == 2^20
Zero == <<0, 0, 0>>
One == <<Limb, 0, 0>>

Norm(x) ==
    LET c3 == x[3] \div Limb
        m2 == x[2] + c3
        c2 == m2 \div Limb
    IN  <<x[1] + c2, m2 % Limb, x[3] % Limb>>

\* The unit in the last place of x, in units of 2^-60.
Ulp(x) ==
    IF x[1] >= Limb THEN 2^8
    ELSE 2^(CHOOSE j \in 1..7 : 2^(12 + j) <= x[1] /\ x[1] < 2^(13 + j))

RoundNearestEven(x, sticky) ==
    IF x = Zero THEN Zero
    ELSE LET u == Ulp(x)
             rem == x[3] % u
             down == x[3] - rem
             half == u \div 2
             up == \/ rem > half
                   \/ rem = half /\ (sticky \/ (down \div u) % 2 = 1)
         IN  Norm(<<x[1], x[2], IF up THEN down + u ELSE down>>)

\* int / int true division, correctly rounded (0 <= c <= n, n >= 1).
FDiv(c, n) ==
    LET q1 == (c * Limb) \div n
        r1 == (c * Limb) % n
        q2 == (r1 * Limb) \div n
        r2 == (r1 * Limb) % n
        q3 == (r2 * Limb) \div n
        r3 == (r2 * Limb) % n
    IN  RoundNearestEven(<<q1, q2, q3>>, r3 # 0)

\* float + float.
FAdd(x, y) ==
    RoundNearestEven(Norm(<<x[1] + y[1], x[2] + y[2], x[3] + y[3]>>), FALSE)

FLeq(x, y) ==
    \/ x[1] < y[1]
    \/ x[1] = y[1] /\ x[2] < y[2]
    \/ x[1] = y[1] /\ x[2] = y[2] /\ x[3] <= y[3]

(***************************************************************************)
(* Python sequences: s[lo:hi], s[start:] and s[k] with 0-based and         *)
(* negative indices.                                                       *)
(***************************************************************************)
Clamp(k, n) ==
    IF k < 0 THEN (IF k + n < 0 THEN 0 ELSE k + n)
    ELSE (IF k > n THEN n ELSE k)

PySlice(s, lo, hi) == SubSeq(s, Clamp(lo, Len(s)) + 1, Clamp(hi, Len(s)))

PySliceFrom(s, start) == SubSeq(s, Clamp(start, Len(s)) + 1, Len(s))

ValidIndex(s, k) == -Len(s) <= k /\ k < Len(s)

PyIndex(s, k) == IF k < 0 THEN s[k + Len(s) + 1] ELSE s[k + 1]

(***************************************************************************)
(* The table: defaultdict(Counter).                                        *)
(***************************************************************************)
EmptyCounter == <<>>
EmptyTable == <<>>

PyNone == [isNone |-> TRUE, counter |-> EmptyCounter]
Some(c) == [isNone |-> FALSE, counter |-> c]

\* Counter.get(t, 0)
CounterGet(c, t) == IF t \in DOMAIN c THEN c[t] ELSE 0

RECURSIVE SumOver(_, _)
SumOver(c, S) ==
    IF S = {} THEN 0
    ELSE LET t == CHOOSE x \in S : TRUE IN c[t] + SumOver(c, S \ {t})

\* sum(transitions.values())
SumValuesLen(c) == Cardinality(DOMAIN c)
SumValues(c) == SumOver(c, DOMAIN c)

\* self.model[c][t] = 1
IncOverwrite(m, c, t) ==
    LET row == IF c \in DOMAIN m THEN m[c] ELSE EmptyCounter
    IN  [x \in DOMAIN m \cup {c} |->
            IF x = c
            THEN [y \in DOMAIN row \cup {t} |-> IF y = t THEN 1 ELSE row[y]]
            ELSE m[x]]
\* self.model[c][t] += 1: a missing context gets a fresh Counter, a missing
\* token counts from 0.
Inc(m, c, t) ==
    LET row == IF c \in DOMAIN m THEN m[c] ELSE EmptyCounter
    IN  [x \in DOMAIN m \cup {c} |->
            IF x = c
            THEN [y \in DOMAIN row \cup {t} |->
                     IF y = t THEN CounterGet(row, t) + 1 ELSE row[y]]
            ELSE m[x]]

\* self.model[c]: a defaultdict lookup, which inserts a missing key.
ModelGetItem(m, c, default) ==
    IF c \in DOMAIN m THEN [model |-> m, value |-> Some(m[c])]
    ELSE [model |-> [x \in DOMAIN m \cup {c} |->
                        IF x = c THEN EmptyCounter ELSE m[x]],
          value |-> Some(EmptyCounter)]
\* self.model.get(c, default): the value, and the table it leaves behind.
ModelGet(m, c, default) ==
    [model |-> m, value |-> IF c \in DOMAIN m THEN Some(m[c]) ELSE default]

\* The sum of every count of the table.
RECURSIVE TableTotalOver(_, _)
TableTotalOver(m, S) ==
    IF S = {} THEN 0
    ELSE LET c == CHOOSE x \in S : TRUE
         IN  SumOver(m[c], DOMAIN m[c]) + TableTotalOver(m, S \ {c})
TableTotal(m) == TableTotalOver(m, DOMAIN m)

(***************************************************************************)
(* MarkovChain.__init__                                                    *)
(***************************************************************************)
MarkovChainInit(o) == [order |-> o, model |-> EmptyTable, exc |-> "none"]

(***************************************************************************)
(* MarkovChain.add_sequence                                                *)
(***************************************************************************)
TrainRangeShort(toks, ord) == Len(toks) - ord - 1
\* range(len(tokenized_text) - self.order): the exclusive upper bound of i.
TrainRange(toks, ord) == Len(toks) - ord

RECURSIVE AddLoop(_, _, _, _, _)
AddLoop(m, ord, toks, i, n) ==
    IF i >= n THEN [model |-> m, exc |-> "none"]
    ELSE IF ~ValidIndex(toks, i + ord) THEN [model |-> m, exc |-> "IndexError"]
    ELSE AddLoop(Inc(m, PySlice(toks, i, i + ord), PyIndex(toks, i + ord)),
                 ord, toks, i + 1, n)

AddSequence(m, ord, toks) == AddLoop(m, ord, toks, 0, TrainRange(toks, ord))

(***************************************************************************)
(* MarkovChain.get_next_token_probability                                  *)
(***************************************************************************)
ProbabilityUnguarded(m, c, t) ==
    LET g == ModelGet(m, c, Some(EmptyCounter))
        total == SumValues(g.value.counter)
    IN  IF total = 0
        THEN [model |-> g.model, ret |-> Zero, exc |-> "ZeroDivisionError"]
        ELSE [model |-> g.model, exc |-> "none",
              ret |-> FDiv(CounterGet(g.value.counter, t), total)]
GetNextTokenProbability(m, c, t) ==
    LET g == ModelGet(m, c, Some(EmptyCounter))
        total == SumValues(g.value.counter)
    IN  IF total = 0
        THEN [model |-> g.model, ret |-> Zero, exc |-> "none"]
        ELSE [model |-> g.model, exc |-> "none",
              ret |-> FDiv(CounterGet(g.value.counter, t), total)]

(***************************************************************************)
(* MarkovChain.generate_sequence                                           *)
(***************************************************************************)
GenRangeOneMore(length) == length + 1
\* range(length): the number of iterations.
GenRange(length) == length

\* not transitions
Falsy(v) == v.isNone \/ DOMAIN v.counter = {}

ChoicesAnyToken(tr) == Tokens
\* random.choices(keys, values)[0]: a key of weight > 0.
Choices(tr) == {t \in DOMAIN tr : tr[t] > 0}

NextContextLonger(result, ord) == PySliceFrom(result, -ord - 1)
NextContextStale(result, ord) == PySlice(result, 0, ord)
\* tuple(result[-self.order:])
NextContext(result, ord) == PySliceFrom(result, -ord)

\* Every outcome of the loop: the result and the table it leaves behind.
RECURSIVE GenLoop(_, _, _, _, _)
GenLoop(m, ord, result, current_state, n) ==
    IF n <= 0 THEN {[ret |-> result, model |-> m]}
    ELSE LET g == ModelGet(m, current_state, PyNone)
         IN  IF Falsy(g.value) THEN {[ret |-> result, model |-> g.model]}
             ELSE UNION {GenLoop(g.model, ord, Append(result, t),
                                 NextContext(Append(result, t), ord), n - 1) :
                         t \in Choices(g.value.counter)}

GenerateSequence(m, ord, seed, length) ==
    GenLoop(m, ord, seed, seed, GenRange(length))

(***************************************************************************)
(* The chain and the call that last returned.                              *)
(***************************************************************************)
VARIABLES order, model, call
vars == <<order, model, call>>

Call(op, tokens, token, length, ret, prob, exc) ==
    [op |-> op, tokens |-> tokens, token |-> token, length |-> length,
     ret |-> ret, prob |-> prob, exc |-> exc]

InitWith(O) ==
    \E o \in O :
        LET c == MarkovChainInit(o)
        IN  /\ order = c.order
            /\ model = c.model
            /\ call = Call("init", <<>>, "", 0, <<>>, Zero, c.exc)

Train(corpora, cap) ==
    \E toks \in corpora :
        LET r == AddSequence(model, order, toks)
        IN  /\ TableTotal(r.model) <= cap
            /\ model' = r.model
            /\ call' = Call("train", toks, "", 0, <<>>, Zero, r.exc)
            /\ UNCHANGED order

Probability(T, maxctx) ==
    \E c \in Seqs(T, maxctx), t \in T :
        LET r == GetNextTokenProbability(model, c, t)
        IN  /\ model' = r.model
            /\ call' = Call("prob", c, t, 0, <<>>, r.ret, r.exc)
            /\ UNCHANGED order

Generate(T, maxseed, maxgen) ==
    \E seed \in Seqs(T, maxseed), length \in 0..maxgen :
        \E r \in GenerateSequence(model, order, seed, length) :
            /\ model' = r.model
            /\ call' = Call("generate", seed, "", length, r.ret, Zero, "none")
            /\ UNCHANGED order

Init == InitWith(Orders)
Corpora == Seqs(Tokens, MaxLen)
TrainStep == Train(Corpora, MaxTrained)
ProbabilityStep == Probability(Tokens, MaxSeed)
GenerateStep == Generate(Tokens, MaxSeed, MaxGen)
Next == TrainStep \/ ProbabilityStep \/ GenerateStep
Spec == Init /\ [][Next]_vars

\* The chain of order 1 over three tokens, trained on corpora that begin
\* with "a".
CorporaProb == {s \in Seqs(TokensProb, MaxLenProb) : s = <<>> \/ s[1] = "a"}
InitProb == InitWith({1})
TrainProb == Train(CorporaProb, MaxTrainedProb)
QueryProb == Probability(TokensProb, 1)
NextProb == TrainProb \/ QueryProb
SpecProb == InitProb /\ [][NextProb]_vars

(***************************************************************************)
(* Vocabulary of the properties.                                           *)
(***************************************************************************)
Count(m, c, t) == IF c \in DOMAIN m /\ t \in DOMAIN m[c] THEN m[c][t] ELSE 0

RowTokens(m, c) == IF c \in DOMAIN m THEN DOMAIN m[c] ELSE {}

\* The number of indices i in 0..len(toks)-ord-1 with toks[i:i+ord] = c and
\* toks[i+ord] = t.
Occurrences(toks, ord, c, t) ==
    Cardinality({i \in 0 .. Len(toks) - ord - 1 :
                    SubSeq(toks, i + 1, i + ord) = c /\ toks[i + ord + 1] = t})

\* The field-by-field sum of two tables.
Merge(m1, m2) ==
    [c \in DOMAIN m1 \cup DOMAIN m2 |->
        [t \in RowTokens(m1, c) \cup RowTokens(m2, c) |->
            Count(m1, c, t) + Count(m2, c, t)]]

Fresh(ord, toks) == AddSequence(EmptyTable, ord, toks).model

Orderings(S) ==
    {e \in [1 .. Cardinality(S) -> S] :
        \A i, j \in 1 .. Cardinality(S) : e[i] = e[j] => i = j}

\* The float sum of probabilityOf(c, e[1]), ..., probabilityOf(c, e[k]),
\* added left to right from 0.
RECURSIVE FloatSum(_, _, _, _)
FloatSum(m, c, e, k) ==
    IF k = 0 THEN Zero
    ELSE FAdd(FloatSum(m, c, e, k - 1), GetNextTokenProbability(m, c, e[k]).ret)

\* |x - 1| <= k * 2^-52
NearOne(x, k) ==
    /\ FLeq(<<Limb - 1, Limb - 1, Limb - k * 2^8>>, x)
    /\ FLeq(x, <<Limb, 0, k * 2^8>>)

Seed == call.tokens
Context == call.tokens

\* current_state when the result holds its first j tokens.
ContextAt(j) ==
    IF j = Len(Seed) THEN Seed
    ELSE PySliceFrom(SubSeq(call.ret, 1, j), -order)

(***************************************************************************)
(* C1: constructing a chain with order < 1 fails with InvalidConfiguration *)
(* and construction succeeds only for order >= 1.                          *)
(***************************************************************************)
C1_InvalidOrderRejected ==
    call.op = "init" =>
        /\ order < 1 => call.exc = "InvalidConfiguration"
        /\ call.exc = "none" => order >= 1

(***************************************************************************)
(* C2: for order >= 1 one train call raises the count of t under c by the  *)
(* number of indices i in 0..len-order-1 with tokens[i:i+order] = c and    *)
(* tokens[i+order] = t, changes no other count, and leaves the table       *)
(* unchanged when len(tokens) <= order.                                    *)
(***************************************************************************)
C2_TrainCounts ==
    [][(call'.op = "train" /\ order >= 1) =>
        /\ call'.exc = "none"
        /\ \A c \in DOMAIN model \cup DOMAIN model' :
             /\ DOMAIN model'[c] # {}
             /\ \A t \in Tokens :
                  Count(model', c, t) =
                      Count(model, c, t) + Occurrences(call'.tokens, order, c, t)
        /\ \A c \in Seqs(Tokens, MaxSeed) \ DOMAIN model', t \in Tokens :
             Occurrences(call'.tokens, order, c, t) = 0
        /\ Len(call'.tokens) <= order => model' = model]_vars

C2_Witness ==
    /\ call.op = "train"
    /\ order >= 1
    /\ Len(call.tokens) > order + 1
    /\ \E c \in DOMAIN model, t \in Tokens :
         Occurrences(call.tokens, order, c, t) >= 2

(***************************************************************************)
(* C3: training is additive.  A train call on any table gives the          *)
(* field-by-field sum of that table and the table of a fresh chain trained *)
(* on the same tokens, and training the tokens of the previous call after  *)
(* it gives the same table as training them before it.                     *)
(***************************************************************************)
C3_TrainAdditive ==
    [][call'.op = "train" =>
        /\ model' = Merge(model, Fresh(order, call'.tokens))
        /\ AddSequence(model', order, call.tokens).model =
               AddSequence(AddSequence(model, order, call.tokens).model,
                           order, call'.tokens).model]_vars

C3_Witness ==
    /\ call.op = "train"
    /\ Len(call.tokens) = order + 1
    /\ order >= 1
    /\ \E c \in DOMAIN model, t \in Tokens :
         /\ Occurrences(call.tokens, order, c, t) = 1
         /\ Count(model, c, t) >= 2

(***************************************************************************)
(* C4, as claimed: for a context of the table probabilityOf is count       *)
(* divided by the total of the context, lies in [0, 1], and the results    *)
(* summed over the tokens of the context equal exactly 1.                  *)
(***************************************************************************)
C4_SumExactlyOne ==
    (call.op = "prob" /\ Context \in DOMAIN model) =>
        /\ call.exc = "none"
        /\ call.prob = FDiv(Count(model, Context, call.token),
                            SumOver(model[Context], DOMAIN model[Context]))
        /\ FLeq(Zero, call.prob) /\ FLeq(call.prob, One)
        /\ \A e \in Orderings(DOMAIN model[Context]) :
             FloatSum(model, Context, e, Len(e)) = One

(***************************************************************************)
(* C4, amended: for a context of the table probabilityOf is count divided  *)
(* by the total of the context, lies in [0, 1], the counts of the context  *)
(* add up to the total, and the float results summed over its k tokens in  *)
(* any order are within k * 2^-52 of 1.                                    *)
(***************************************************************************)
C4_SumNearOne ==
    (call.op = "prob" /\ Context \in DOMAIN model) =>
        /\ call.exc = "none"
        /\ call.prob = FDiv(Count(model, Context, call.token),
                            SumOver(model[Context], DOMAIN model[Context]))
        /\ FLeq(Zero, call.prob) /\ FLeq(call.prob, One)
        /\ SumOver(model[Context], DOMAIN model[Context]) > 0
        /\ \A e \in Orderings(DOMAIN model[Context]) :
             NearOne(FloatSum(model, Context, e, Len(e)), Len(e))

C4_Witness ==
    /\ call.op = "prob"
    /\ Context \in DOMAIN model
    /\ Cardinality(DOMAIN model[Context]) = 3
    /\ call.prob # Zero
    /\ \E e \in Orderings(DOMAIN model[Context]) :
         FloatSum(model, Context, e, Len(e)) # One

(***************************************************************************)
(* C5: probabilityOf on a context that is not in the table returns 0.0 for *)
(* every token and raises nothing.                                         *)
(***************************************************************************)
C5_UnseenContextZero ==
    (call.op = "prob" /\ Context \notin DOMAIN model) =>
        call.prob = Zero /\ call.exc = "none"

C5_Witness ==
    /\ call.op = "prob"
    /\ Context \notin DOMAIN model
    /\ Len(Context) = order
    /\ DOMAIN model # {}

(***************************************************************************)
(* C6: generate returns the seed followed by at most length tokens, and    *)
(* the seed alone when length is 0.                                        *)
(***************************************************************************)
C6_GenerateLength ==
    call.op = "generate" =>
        /\ Len(call.ret) >= Len(Seed)
        /\ Len(call.ret) <= Len(Seed) + call.length
        /\ SubSeq(call.ret, 1, Len(Seed)) = Seed
        /\ call.length = 0 => call.ret = Seed

C6_Witness ==
    /\ call.op = "generate"
    /\ order >= 1
    /\ Len(Seed) = order
    /\ call.length >= 2
    /\ Len(call.ret) = Len(Seed) + call.length

(***************************************************************************)
(* C7: generate stops short of length tokens exactly when the current      *)
(* context is not in the table, and returns normally: every context it     *)
(* sampled from is in the table, a short result ends at a context that is  *)
(* not, and a seed that is not in the table comes back alone.              *)
(***************************************************************************)
C7_StopsAtAbsentContext ==
    call.op = "generate" =>
        /\ call.exc = "none"
        /\ \A j \in Len(Seed) .. Len(call.ret) - 1 : ContextAt(j) \in DOMAIN model
        /\ Len(call.ret) < Len(Seed) + call.length =>
               ContextAt(Len(call.ret)) \notin DOMAIN model
        /\ Seed \notin DOMAIN model => call.ret = Seed

C7_Witness ==
    /\ call.op = "generate"
    /\ order >= 1
    /\ Len(Seed) = order
    /\ Len(call.ret) > Len(Seed)
    /\ Len(call.ret) < Len(Seed) + call.length

(***************************************************************************)
(* C8: from a context with exactly one observed continuation, generate     *)
(* with length >= 1 produces that continuation as the next token.          *)
(***************************************************************************)
C8_SingleContinuation ==
    (/\ call.op = "generate"
     /\ call.length >= 1
     /\ Seed \in DOMAIN model
     /\ Cardinality(DOMAIN model[Seed]) = 1) =>
        /\ Len(call.ret) > Len(Seed)
        /\ call.ret[Len(Seed) + 1] \in DOMAIN model[Seed]

C8_Witness ==
    /\ call.op = "generate"
    /\ order >= 1
    /\ Len(Seed) = order
    /\ call.length >= 1
    /\ Seed \in DOMAIN model
    /\ Cardinality(DOMAIN model[Seed]) = 1
    /\ Cardinality(DOMAIN model) >= 2
    /\ \E t \in Tokens : Count(model, Seed, t) >= 2

(***************************************************************************)
(* C9: probabilityOf and generate leave the table and the order unchanged, *)
(* and no context of the table has an empty distribution.                  *)
(***************************************************************************)
C9_QueriesReadOnly ==
    [][call'.op \in {"prob", "generate"} =>
        /\ model' = model
        /\ order' = order
        /\ \A c \in DOMAIN model' : DOMAIN model'[c] # {}]_vars

C9_Witness ==
    /\ call.op \in {"prob", "generate"}
    /\ call.tokens \notin DOMAIN model
    /\ Len(call.tokens) = order
    /\ DOMAIN model # {}

(***************************************************************************)
(* C10: for a seed of order tokens, order >= 1, every token generate       *)
(* appends has a count > 0 in the table under the order tokens before it.  *)
(***************************************************************************)
C10_OnlyTrainedTransitions ==
    (call.op = "generate" /\ order >= 1 /\ Len(Seed) = order) =>
        \A j \in Len(Seed) + 1 .. Len(call.ret) :
            Count(model, SubSeq(call.ret, j - order, j - 1), call.ret[j]) > 0

C10_Witness ==
    /\ call.op = "generate"
    /\ order >= 1
    /\ Len(Seed) = order
    /\ Len(call.ret) >= Len(Seed) + 2

====
